---- MODULE Spec2Model ----
(***************************************************************************)
(* Model of the directory-change watcher of trommons_checker.py            *)
(* (Reporter, ChangeMonitor, Runner, main) together with the handler       *)
(* run_stuff of trommons_script.py, and of the inotify queue and the       *)
(* directory tree they work against.                                       *)
(*                                                                         *)
(* A leaf name is a sequence of characters, a path a sequence of leaf      *)
(* names: <<ROOT, n>> is ROOT/n, and a path ending in the empty name       *)
(* <<>> is a path with a trailing slash (os.path.join(p, '') = p + '/').   *)
(***************************************************************************)
EXTENDS Integers, Sequences, FiniteSets, TLC

VARIABLES
    white_list,      \* ChangeMonitor.white_list: sequence of glob patterns
    black_list,      \* ChangeMonitor.black_list: sequence of glob patterns
    delay,           \* ChangeMonitor.delay (0: no debounce)
    ignore_events,   \* Runner.ignore_events
    no_initial_run,  \* Runner.no_initial_run
    function,        \* Runner.function: "run_stuff" or "test_function"
    universe,        \* file system: the directories somebody may create
    watches,         \* ChangeMonitor.watches: wd -> path
    pc,              \* position of the single thread of control
    events,          \* __iter__'s local list of raw events
    change_set,      \* the change set handed to do_run
    todo,            \* do_run: members of change_set not yet iterated
    current,         \* do_run: the invocations of the handler in progress
    ignored,         \* do_run: ignored_change_set of the last drain
    run_number,      \* Reporter.run_number
    dirs,            \* file system: the directories that exist
    kernel,          \* inotify: live watches, wd -> path
    next_wd,         \* inotify: the next watch descriptor to hand out
    queue,           \* inotify: events queued and not yet read
    ops,             \* number of file system operations so far (event ids)
    calls,           \* history: handler invocations of the current cycle
    started,         \* history: a blocking get_events has returned
    interrupted,     \* history: a KeyboardInterrupt has been delivered
    hist,            \* history: what became of each operation's events
    uncaught,        \* the exception that ended the process ("": none)
    q_name,          \* filter specification: the name last asked about
    q_result,        \* filter specification: is_white_listed's answer
    t_before,        \* history: the registry as it was before any batch
    h_step,          \* run_stuff: the step of the pipeline it is at
    h_done,          \* run_stuff: the steps this invocation has completed
    h_failed,        \* run_stuff: the step that raised ("": none)
    h_logged,        \* run_stuff: logging.exception calls of this invocation
    h_exit,          \* run_stuff: the steps whose command ended in failure
    h_missing,       \* history: the (cycle, path) ensure_files found gone
    log,             \* history: the Reporter and handler calls of the cycle
    reads,           \* history: the sleeps and reads of the batch in the making
    consumed         \* history: the events the reads have returned so far

vars == << white_list, black_list, delay, ignore_events, no_initial_run,
           function, universe, watches, pc, events, change_set, todo, current, ignored,
           run_number, dirs, kernel, next_wd, queue, ops, calls, started,
           interrupted, hist, uncaught, q_name, q_result, t_before, h_step,
           h_done, h_failed, h_logged, h_exit, h_missing, log, reads,
           consumed >>

config == << white_list, black_list, delay, ignore_events, no_initial_run,
             function, universe >>

filter_query == << q_name, q_result >>

track_query == << t_before >>

handler == << h_step, h_done, h_failed, h_logged, h_exit, h_missing >>

(***************************************************************************)
(* Bounds of the model.                                                    *)
(***************************************************************************)
MaxRuns == 2        \* dispatch cycles the model follows
MaxOps == 2         \* file system operations the environment performs
MaxListLen == 2     \* length of an allow or deny list (filter specification)
MaxBatch == 2       \* events of a batch (tracking specification)

(***************************************************************************)
(* Names, paths and glob patterns.                                         *)
(***************************************************************************)
ROOT == <<"w">>
TASK == <<"t", "1">>
PLAIN == <<"x">>
EMPTY == <<>>

\* Python's None where a name is expected, and "if not name"
None == <<"None">>
falsy(name) == name \in {EMPTY, None}

POOTLE_DIR == <<ROOT>>

Names == {EMPTY, None, TASK, PLAIN, <<"t">>, <<"x", "1">>}
ChildNames == {TASK, PLAIN}

Patterns == {<<"t", "*">>, <<"*">>, <<"x">>, <<"?", "1">>, <<"*", "1">>}

\* fnmatch.fnmatch(name, pattern): "*" matches any run of characters, "?"
\* any one character, every other character itself.
RECURSIVE fnmatch(_, _)
fnmatch(name, pattern) ==
    IF pattern = <<>> THEN name = <<>>
    ELSE IF Head(pattern) = "*"
         THEN \/ fnmatch(name, Tail(pattern))
              \/ name # <<>> /\ fnmatch(Tail(name), pattern)
    ELSE IF name = <<>> THEN FALSE
    ELSE /\ Head(pattern) = "?" \/ Head(pattern) = Head(name)
         /\ fnmatch(Tail(name), Tail(pattern))

\* "for pattern in list: if fnmatch.fnmatch(name, pattern): return ..."
RECURSIVE first_match(_, _)
first_match(name, list) ==
    IF list = <<>> THEN FALSE
    ELSE IF fnmatch(name, Head(list)) THEN TRUE
    ELSE first_match(name, Tail(list))

is_white_listed_deny_first(name) ==
    IF falsy(name) THEN TRUE
    ELSE IF first_match(name, black_list) THEN FALSE
    ELSE TRUE

is_white_listed(name) ==
    IF falsy(name) THEN TRUE
    ELSE IF first_match(name, white_list) THEN TRUE
    ELSE IF first_match(name, black_list) THEN FALSE
    ELSE TRUE

\* os.path.join(directory, name); NoPath is the None that watches.get(wd)
\* gives for an unknown wd, NoDir the '' that watches.get(wd, '') gives.
NoPath == <<None>>
NoDir == <<>>
join(directory, name) ==
    IF directory = NoDir THEN <<name>> ELSE Append(directory, name)

\* the leaf name of a path
Last(path) == path[Len(path)]

\* self.watches.get(wd) and self.watches.get(wd, '')
get(w, wd, default) == IF wd \in DOMAIN w THEN w[wd] ELSE default

(***************************************************************************)
(* The file system and the inotify instance behind inotifyx.               *)
(***************************************************************************)
\* the directories there can be: the root, its children and theirs
Below(ds) == {join(d, n) : d \in ds, n \in ChildNames}

Shallow == {POOTLE_DIR} \cup Below({POOTLE_DIR})

AllDirs == Shallow \cup Below(Below({POOTLE_DIR}))

\* The event kinds the watches ask for: IN_CREATE | IN_MODIFY | IN_MOVE.
WATCH_EVENTS == {"create", "modify", "move"}

\* The kernel queues an event for a watch when the watch's mask asks for its
\* kind; IN_IGNORED (the watch went away) is queued whatever the mask.
Delivered(evs) ==
    SelectSeq(evs, LAMBDA e : e.kind \in WATCH_EVENTS \cup {"ignored"})

WdsOf(path) == {wd \in DOMAIN kernel : kernel[wd] = path}

Restrict(f, S) == [x \in S |-> f[x]]

Terminated == pc \in {"exited", "crashed"}

\* Between the start of the first and the return of the last handler
\* invocation of a cycle.
InHandlers ==
    \/ pc = "handler"
    \/ pc = "dispatch" /\ calls # <<>> /\ todo # {}

Event(wd, name, isdir, kind) ==
    [id |-> ops + 1, wd |-> wd, name |-> name, isdir |-> isdir,
     kind |-> kind, during |-> InHandlers]

\* The operation's events are queued; hist notes what the operation was:
\* made is the directory a delivered IN_CREATE|IN_ISDIR announces, dropped
\* the wd of the watch the kernel dropped (0: none).
Post(evs, made, dropped) ==
    /\ queue' = queue \o Delivered(evs)
    /\ ops' = ops + 1
    /\ hist' = Append(hist,
                  [fate |-> IF Delivered(evs) = <<>> THEN "none" ELSE "queued",
                   during |-> InHandlers,
                   made |-> IF Delivered(evs) = <<>> THEN NoPath ELSE made,
                   dropped |-> dropped])

\* Somebody creates the directory parent/name.
OsMkdir(parent, name) ==
    /\ ~Terminated
    /\ ops < MaxOps
    /\ parent \in dirs
    /\ join(parent, name) \in universe \ dirs
    /\ dirs' = dirs \cup {join(parent, name)}
    /\ Post([i \in 1..Cardinality(WdsOf(parent)) |->
                Event(CHOOSE wd \in WdsOf(parent) : TRUE, name, TRUE, "create")],
            join(parent, name), 0)
    /\ UNCHANGED << config, watches, pc, events, change_set, todo, current,
                    ignored, run_number, kernel, next_wd, calls, started,
                    interrupted, uncaught, filter_query, track_query,
                    handler, log, reads, consumed >>

\* Somebody creates the file parent/name and writes to it: IN_CREATE, then
\* IN_MODIFY, for the parent's watch.
OsWrite(parent, name) ==
    /\ ~Terminated
    /\ ops < MaxOps
    /\ parent \in dirs
    /\ join(parent, name) \notin dirs
    /\ WdsOf(parent) # {}
    /\ LET wd == CHOOSE w \in WdsOf(parent) : TRUE
       IN Post(<< Event(wd, name, FALSE, "create"),
                  Event(wd, name, FALSE, "modify") >>, NoPath, 0)
    /\ UNCHANGED << config, watches, pc, events, change_set, todo, current,
                    ignored, run_number, dirs, kernel, next_wd, calls, started,
                    interrupted, uncaught, filter_query, track_query,
                    handler, log, reads, consumed >>

\* The directory path is removed (rmdir, shutil.rmtree): IN_DELETE for the
\* parent's watch, IN_DELETE_SELF and IN_IGNORED for its own, which the
\* kernel then drops. before are the events of what the same operation did
\* first.
Remove(before, path) ==
    /\ dirs' = dirs \ {path}
    /\ LET parent == SubSeq(path, 1, Len(path) - 1)
           name == path[Len(path)]
           up == [i \in 1..Cardinality(WdsOf(parent)) |->
                    Event(CHOOSE wd \in WdsOf(parent) : TRUE, name, TRUE, "delete")]
           own == IF WdsOf(path) = {} THEN <<>>
                  ELSE LET wd == CHOOSE wd \in WdsOf(path) : TRUE
                       IN << Event(wd, EMPTY, FALSE, "delete_self"),
                             Event(wd, EMPTY, FALSE, "ignored") >>
       IN /\ Post(before \o up \o own, NoPath,
                  IF WdsOf(path) = {} THEN 0 ELSE CHOOSE wd \in WdsOf(path) : TRUE)
          /\ kernel' = Restrict(kernel, DOMAIN kernel \ WdsOf(path))

OsRmdir(path) ==
    /\ ~Terminated
    /\ ops < MaxOps
    /\ path \in dirs \ {POOTLE_DIR}
    /\ Remove(<<>>, path)
    /\ UNCHANGED << config, watches, pc, events, change_set, todo, current,
                    ignored, run_number, next_wd, calls, started,
                    interrupted, uncaught, filter_query, track_query,
                    handler, log, reads, consumed >>

(***************************************************************************)
(* ChangeMonitor.                                                          *)
(***************************************************************************)
\* line 108: the events whose leaf name is white listed
white_listed_events_unfiltered(evs) == evs

white_listed_events(evs) == SelectSeq(evs, LAMBDA e : is_white_listed(e.name))

\* line 116: self.watches.pop(event.wd, None)
deregister_strict(st, wd) ==
    IF wd \in DOMAIN st.watches
    THEN [st EXCEPT !.watches = Restrict(st.watches, DOMAIN st.watches \ {wd})]
    ELSE [st EXCEPT !.ok = FALSE, !.error = "KeyError"]

deregister(st, wd) ==
    [st EXCEPT !.watches = Restrict(st.watches, DOMAIN st.watches \ {wd})]

\* lines 112-116, "Track watched dirs", over the events left to look at. st
\* is [watches, kernel, next_wd, ok, error]; ok turns FALSE when the
\* statement of line 114 raises: os.path.join(None, name) (AttributeError)
\* for a wd the registry does not know, or inotifyx.add_watch (IOError) for
\* a path that does not exist.
RECURSIVE track(_, _)
track(evs, st) ==
    IF evs = <<>> \/ ~st.ok THEN st
    ELSE LET e == Head(evs)
             parent == get(st.watches, e.wd, NoPath)
             path == join(parent, e.name)
             known == {wd \in DOMAIN st.kernel : st.kernel[wd] = path}
             wd == IF known # {} THEN CHOOSE w \in known : TRUE ELSE st.next_wd
         IN IF e.isdir /\ e.kind = "create"
            THEN IF parent = NoPath \/ path \notin dirs
                 THEN [st EXCEPT !.ok = FALSE,
                                 !.error = IF parent = NoPath
                                           THEN "AttributeError" ELSE "IOError"]
                 ELSE track(Tail(evs),
                        [watches |-> [w \in DOMAIN st.watches \cup {wd} |->
                                        IF w = wd THEN path ELSE st.watches[w]],
                         kernel |-> [w \in DOMAIN st.kernel \cup {wd} |->
                                        IF w = wd THEN path ELSE st.kernel[w]],
                         next_wd |-> IF known # {} THEN st.next_wd
                                     ELSE st.next_wd + 1,
                         ok |-> TRUE, error |-> ""])
            ELSE IF e.kind = "delete_self"
            THEN track(Tail(evs), deregister(st, e.wd))
            ELSE track(Tail(evs), st)

\* lines 119-121 and 129-131: the set of the events' paths
paths_of(evs, w) == {join(get(w, evs[i].wd, NoDir), evs[i].name) : i \in DOMAIN evs}

Ids(evs) == {evs[i].id : i \in DOMAIN evs}

\* hist with the fate of the operations in DOMAIN fates set to fates[i]
Mark(fates) ==
    hist' = [i \in DOMAIN hist |->
                IF i \in DOMAIN fates THEN [hist[i] EXCEPT !.fate = fates[i]]
                ELSE hist[i]]

\* what identifies a raw event: the operation and the kind
Uid(e) == << e.id, e.kind >>

Uids(evs) == [i \in DOMAIN evs |-> Uid(evs[i])]

\* inotifyx.get_events(fd[, 0]), lines 97, 105 and 128: the read returns the
\* events queued and takes them off the queue
get_events_peek == [events |-> queue, left |-> queue]

get_events == [events |-> queue, left |-> <<>>]

\* line 97: the blocking inotifyx.get_events(self.fd)
GetEvents ==
    /\ pc = "wait"
    /\ run_number < MaxRuns
    /\ queue # <<>>
    /\ events' = get_events.events
    /\ queue' = get_events.left
    /\ started' = TRUE
    /\ pc' = IF delay # 0 THEN "sleep" ELSE "build"
    /\ Mark([i \in Ids(get_events.events) |-> "read"])
    /\ reads' = << [op |-> "get_events", blocking |-> TRUE,
                    got |-> get_events.events] >>
    /\ consumed' = consumed \o Uids(get_events.events)
    /\ UNCHANGED << config, watches, change_set, todo, current, ignored,
                    run_number, dirs, kernel, next_wd, ops, calls,
                    interrupted, uncaught, filter_query, track_query,
                    handler, log >>

\* lines 103-108: where control goes once the sleep and the non-blocking
\* read that found the events "found" are over: on to the filter
after_debounce_rearmed(found) == IF found # <<>> THEN "sleep" ELSE "build"

after_debounce(found) == "build"

\* lines 103-105: time.sleep(self.delay), then one non-blocking get_events
Debounce ==
    /\ pc = "sleep"
    /\ events' = events \o get_events.events
    /\ queue' = get_events.left
    /\ pc' = after_debounce(get_events.events)
    /\ Mark([i \in Ids(get_events.events) |-> "read"])
    /\ reads' = reads \o << [op |-> "sleep", blocking |-> TRUE, got |-> <<>>],
                            [op |-> "get_events", blocking |-> FALSE,
                             got |-> get_events.events] >>
    /\ consumed' = consumed \o Uids(get_events.events)
    /\ UNCHANGED << config, watches, change_set, todo, current, ignored,
                    run_number, dirs, kernel, next_wd, ops, calls, started,
                    interrupted, uncaught, filter_query, track_query,
                    handler, log >>

\* line 110, "if events:": a change set is yielded for the events kept
yields_always(kept) == TRUE

yields(kept) == kept # <<>>

\* lines 108-122: filter, track the watched directories, yield the change set
\* (or go round the loop when no event is left)
Build ==
    /\ pc = "build"
    /\ LET kept == white_listed_events(events)
           st == track(kept, [watches |-> watches, kernel |-> kernel,
                              next_wd |-> next_wd, ok |-> TRUE,
                              error |-> ""])
       IN /\ watches' = st.watches
          /\ kernel' = st.kernel
          /\ next_wd' = st.next_wd
          /\ Mark([i \in Ids(events) |->
                      IF i \notin Ids(kept) THEN "filtered"
                      ELSE IF st.ok THEN "dispatched" ELSE "lost"])
          /\ IF ~yields(kept)
             THEN pc' = "wait" /\ UNCHANGED change_set
             ELSE IF st.ok
             THEN pc' = "begin_run" /\ change_set' = paths_of(kept, st.watches)
             ELSE pc' = "crashed" /\ UNCHANGED change_set
          /\ uncaught' = IF st.ok THEN "" ELSE st.error
    /\ reads' = <<>>
    /\ UNCHANGED << config, events, todo, current, ignored, run_number, dirs,
                    queue, ops, calls, started, interrupted, filter_query,
                    track_query, handler, log, consumed >>

\* lines 124-132: ChangeMonitor.clear
clear_none ==
    [events |-> <<>>, left |-> queue, change_set |-> {}, watches |-> watches]

clear_unfiltered ==
    [events |-> get_events.events, left |-> get_events.left,
     change_set |-> paths_of(get_events.events, watches),
     watches |-> watches]

\* clear as it would be with the "Track watched dirs" lines of __iter__
clear_tracking ==
    [events |-> get_events.events, left |-> get_events.left,
     change_set |-> paths_of(white_listed_events(get_events.events), watches),
     watches |-> track(white_listed_events(get_events.events),
                       [watches |-> watches, kernel |-> kernel,
                        next_wd |-> next_wd, ok |-> TRUE,
                        error |-> ""]).watches]

\* clear reads the registry (line 130) and leaves it as it is
clear ==
    [events |-> get_events.events, left |-> get_events.left,
     change_set |-> paths_of(white_listed_events(get_events.events), watches),
     watches |-> watches]

(***************************************************************************)
(* Runner.                                                                 *)
(***************************************************************************)
\* lines 182-186: monitor_count, then the initial run unless no_initial_run
MainLoop_always_runs ==
    /\ pc = "main_loop"
    /\ change_set' = {}
    /\ pc' = "begin_run"

MainLoop_body ==
    /\ pc = "main_loop"
    /\ IF no_initial_run
       THEN pc' = "wait" /\ UNCHANGED change_set
       ELSE pc' = "begin_run" /\ change_set' = {}

MainLoop ==
    /\ MainLoop_body
    /\ log' = << [op |-> "monitor_count", arg |-> {Len(watches)}] >>
    /\ UNCHANGED << config, watches, events, todo, current, ignored,
                    run_number, dirs, kernel, next_wd, queue, ops, calls,
                    started, interrupted, hist, uncaught, filter_query,
                    track_query, handler, reads, consumed >>

\* line 172: reporter.begin_run(change_set); line 173 starts the iteration
BeginRun ==
    /\ pc = "begin_run"
    /\ run_number' = run_number + 1
    /\ todo' = change_set
    /\ calls' = <<>>
    /\ pc' = "dispatch"
    /\ log' = << [op |-> "begin_run", arg |-> change_set] >>
    /\ UNCHANGED << config, watches, events, change_set, current, ignored,
                    dirs, kernel, next_wd, queue, ops, started, interrupted,
                    hist, uncaught, filter_query, track_query, handler,
                    reads, consumed >>

\* line 173: what is left of the iteration after change is taken
rest(change) == todo \ {change}

\* line 174: self.function(change) is called
CallHandler ==
    /\ pc = "dispatch"
    /\ \E change \in todo :
          /\ todo' = rest(change)
          /\ current' = current \cup {change}
          /\ calls' = Append(calls, change)
          /\ log' = Append(log, [op |-> "function", arg |-> {change}])
    /\ pc' = "handler"
    /\ h_step' = 1
    /\ h_done' = <<>>
    /\ h_failed' = ""
    /\ h_logged' = 0
    /\ h_exit' = {}
    /\ UNCHANGED << config, watches, events, change_set, ignored, run_number,
                    dirs, kernel, next_wd, queue, ops, started, interrupted,
                    hist, uncaught, filter_query, track_query, h_missing,
                    reads, consumed >>

\* line 174: the call returns. run_stuff returns whether its work was done
\* or its "except:" logged a failure (trommons_script.py lines 102-140).
HandlerReturn ==
    /\ pc = "handler"
    /\ current' = {}
    /\ pc' = "dispatch"
    /\ UNCHANGED << config, watches, events, change_set, todo, ignored,
                    run_number, dirs, kernel, next_wd, queue, ops, calls,
                    started, interrupted, hist, uncaught, filter_query, track_query,
                    handler, log, reads, consumed >>

\* line 174: the call raises. do_run, main_loop and main have no handler
\* for it (main catches KeyboardInterrupt only), so the process dies.
HandlerRaise ==
    /\ pc = "handler"
    /\ function = "test_function"
    /\ current' = {}
    /\ pc' = "crashed"
    /\ uncaught' = "HandlerFailure"
    /\ UNCHANGED << config, watches, events, change_set, todo, ignored,
                    run_number, dirs, kernel, next_wd, queue, ops, calls,
                    started, interrupted, hist, filter_query, track_query,
                    handler, log, reads, consumed >>

\* line 175: self.change_monitor.clear() if self.ignore_events else set()
drain_skipped == clear_none

drain == IF ignore_events THEN clear ELSE clear_none

\* lines 175-176: the drain when ignore_events, then reporter.end_run
EndRun ==
    /\ pc = "dispatch"
    /\ todo = {}
    /\ LET got == drain
       IN /\ ignored' = got.change_set
          /\ queue' = got.left
          /\ watches' = got.watches
          /\ Mark([i \in Ids(got.events) |-> "discarded"])
          /\ consumed' = consumed \o Uids(got.events)
          /\ log' = log \o (IF ignore_events
                              THEN << [op |-> "clear",
                                       arg |-> {got.events}] >>
                              ELSE <<>>)
                        \o << [op |-> "end_run", arg |-> got.change_set] >>
    /\ pc' = "wait"
    /\ UNCHANGED << config, events, change_set, todo, current, run_number,
                    dirs, kernel, next_wd, ops, calls, started, interrupted,
                    uncaught, filter_query, track_query, handler, reads >>

(***************************************************************************)
(* run_stuff (trommons_script.py), step by step.                           *)
(***************************************************************************)
\* lines 107-137: the calls inside the try block, in order
PIPELINE == << "ensure_files", "parse_input_json", "validate_provided_data",
               "ensure_languages", "create_new_project",
               "import_project_file", "ensure_user",
               "assign_user_to_project", "notify_trommons" >>

\* the directory a change set path names: os.path.exists and os.path.isdir
\* disregard a trailing slash
DirOf(path) ==
    IF Len(path) > 1 /\ Last(path) = EMPTY
    THEN SubSeq(path, 1, Len(path) - 1) ELSE path

\* lines 144-174: ensure_files raises when the path does not exist or is no
\* directory, and when the files in it are not the two expected
ensure_files_unchecked(path) == {"ok", "Exception"}

ensure_files(path) ==
    IF DirOf(path) \in dirs THEN {"ok", "Exception"} ELSE {"Exception"}

\* what a step can come to: "ok", or the exception it raises. The steps
\* that open or move a file of the directory (lines 180 and 330) raise when
\* the directory is gone.
Outcomes(step, path) ==
    IF step = "ensure_files" THEN ensure_files(path)
    ELSE IF step \in {"parse_input_json", "import_project_file"}
    THEN IF DirOf(path) \in dirs THEN {"ok", "IOError"} ELSE {"IOError"}
    ELSE IF step = "notify_trommons" THEN {"ok", "IOError"}
    ELSE IF step = "validate_provided_data" THEN {"ok", "Exception"}
    ELSE IF step = "assign_user_to_project" THEN {"ok", "OSError"}
    ELSE {"ok", "HttpError"}

\* lines 343 and 401, subprocess.call(cmd_args): the exit status the pootle
\* command of the step can end with (0 for a step that runs no command);
\* the value subprocess.call returns is dropped, so no status raises
call(step) ==
    IF step \in {"import_project_file", "assign_user_to_project"}
    THEN {0, 1} ELSE {0}

\* line 139, "except:": the exceptions run_stuff's handler catches
except_io_only(exc) == exc = "IOError"

except(exc) == TRUE

\* h_missing once the step run_stuff is at has looked at the path
Noted(change) ==
    IF PIPELINE[h_step] = "ensure_files" /\ DirOf(change) \notin dirs
    THEN h_missing \cup {<< run_number, change >>}
    ELSE h_missing

RunningStep ==
    /\ pc = "handler"
    /\ function = "run_stuff"
    /\ h_failed = ""
    /\ h_step \in DOMAIN PIPELINE

\* lines 107-137: the step run_stuff is at returns. import_project_file has
\* then moved the translation file out of the directory (line 330) and
\* removed the directory (line 348).
StepOk ==
    /\ RunningStep
    /\ \E change \in current :
          /\ "ok" \in Outcomes(PIPELINE[h_step], change)
          /\ IF PIPELINE[h_step] = "import_project_file"
             THEN Remove([i \in 1..Cardinality(WdsOf(DirOf(change))) |->
                            Event(CHOOSE wd \in WdsOf(DirOf(change)) : TRUE,
                                  PLAIN, FALSE, "move")],
                         DirOf(change))
             ELSE UNCHANGED << dirs, kernel, queue, ops, hist >>
          /\ h_missing' = Noted(change)
    /\ \E status \in call(PIPELINE[h_step]) :
          h_exit' = IF status # 0 THEN h_exit \cup {PIPELINE[h_step]}
                    ELSE h_exit
    /\ h_done' = Append(h_done, PIPELINE[h_step])
    /\ h_step' = h_step + 1
    /\ UNCHANGED << config, watches, pc, events, change_set, todo, current,
                    ignored, run_number, next_wd, calls, started,
                    interrupted, uncaught, filter_query, track_query,
                    h_failed, h_logged, log, reads, consumed >>

\* lines 107-140: the step run_stuff is at raises; the except clause logs
\* the exception (line 140), or the exception leaves run_stuff
StepRaise ==
    /\ RunningStep
    /\ \E change \in current :
          /\ \E exc \in Outcomes(PIPELINE[h_step], change) \ {"ok"} :
                IF except(exc)
                THEN /\ h_logged' = h_logged + 1
                     /\ UNCHANGED << pc, current, uncaught >>
                ELSE /\ pc' = "crashed"
                     /\ current' = {}
                     /\ uncaught' = "HandlerFailure"
                     /\ UNCHANGED h_logged
          /\ h_missing' = Noted(change)
    /\ h_failed' = PIPELINE[h_step]
    /\ UNCHANGED << config, watches, events, change_set, todo, ignored,
                    run_number, dirs, kernel, next_wd, queue, ops, calls,
                    started, interrupted, hist, filter_query, track_query,
                    h_step, h_done, h_exit, log, reads, consumed >>

\* line 174 of trommons_checker.py: run_stuff returns, the pipeline done or
\* its failure logged
RunStuffReturn ==
    /\ pc = "handler"
    /\ function = "run_stuff"
    /\ h_failed # "" \/ h_step \notin DOMAIN PIPELINE
    /\ current' = {}
    /\ pc' = "dispatch"
    /\ UNCHANGED << config, watches, events, change_set, todo, ignored,
                    run_number, dirs, kernel, next_wd, queue, ops, calls,
                    started, interrupted, hist, uncaught, filter_query,
                    track_query, handler, log, reads, consumed >>

(***************************************************************************)
(* main: KeyboardInterrupt.                                                *)
(***************************************************************************)
\* Where a KeyboardInterrupt raised at the current position ends up: main's
\* "except KeyboardInterrupt: pass" (lines 240-241), or, inside run_stuff's
\* try block, run_stuff's own bare "except:" (trommons_script.py line 139),
\* after which run_stuff returns as usual. The interrupt is taken where the
\* process spends its time: the blocking read, the sleep and the handler.
caught_by ==
    IF pc = "handler" /\ function = "run_stuff"
    THEN {"main", "run_stuff"}  \* outside / inside the try block
    ELSE {"main"}

Interrupt ==
    /\ pc \in {"wait", "sleep", "handler"}
    /\ ~interrupted
    /\ interrupted' = TRUE
    /\ \E by \in caught_by :
          IF by = "main"
          THEN pc' = "exited" /\ current' = {}
          ELSE UNCHANGED << pc, current >>
    /\ UNCHANGED << config, watches, events, change_set, todo, ignored,
                    run_number, dirs, kernel, next_wd, queue, ops, calls,
                    started, hist, uncaught, filter_query, track_query,
                    handler, log, reads, consumed >>

(***************************************************************************)
(* The watcher as main() and its callers can set it up.                    *)
(***************************************************************************)
\* lines 76-80: the sub directories os.walk finds below top; line 77 prunes
\* those whose leaf name is not white listed, so os.walk does not descend
\* into them
RECURSIVE walk_from(_, _)
walk_from(top, tree) ==
    LET subdirs == {d \in tree : /\ Len(d) = Len(top) + 1
                                 /\ SubSeq(d, 1, Len(top)) = top
                                 /\ is_white_listed(Last(d))}
    IN subdirs \cup UNION {walk_from(d, tree) : d \in subdirs}

walk_unpruned(tree) == {d \in tree \ {POOTLE_DIR} : is_white_listed(Last(d))}

walk(tree) == walk_from(POOTLE_DIR, tree)

\* the order in which the directories are given their watches
RECURSIVE in_order(_)
in_order(S) ==
    IF S = {} THEN <<>>
    ELSE LET d == CHOOSE x \in S : TRUE IN <<d>> \o in_order(S \ {d})

\* the directory trees the watcher is started on
InitTrees == {{POOTLE_DIR}, Shallow}

\* main, lines 217 and 220 ('task-*' and '*'), and no lists at all
FilterConfigs == { << << <<"t", "*">> >>, << <<"*">> >> >>, << <<>>, <<>> >> }

\* lines 54-80 and 159-167: the ChangeMonitor and the Runner as constructed,
\* nothing read, reported or run yet
Constructed ==
    /\ watches = <<POOTLE_DIR>> \o in_order(walk(dirs))
    /\ kernel = watches
    /\ next_wd = Len(watches) + 1
    /\ pc = "main_loop"
    /\ events = <<>>
    /\ change_set = {}
    /\ todo = {}
    /\ current = {}
    /\ ignored = {}
    /\ run_number = 0
    /\ queue = <<>>
    /\ ops = 0
    /\ calls = <<>>
    /\ started = FALSE
    /\ interrupted = FALSE
    /\ hist = <<>>
    /\ uncaught = ""
    /\ q_name = EMPTY
    /\ q_result = TRUE
    /\ t_before = watches
    /\ h_step = 0
    /\ h_done = <<>>
    /\ h_failed = ""
    /\ h_logged = 0
    /\ h_exit = {}
    /\ h_missing = {}
    /\ log = <<>>
    /\ reads = <<>>
    /\ consumed = <<>>

Init ==
    /\ \E f \in FilterConfigs : white_list = f[1] /\ black_list = f[2]
    /\ delay \in {0, 1}
    /\ ignore_events \in BOOLEAN
    /\ no_initial_run \in BOOLEAN
    /\ function \in {"run_stuff", "test_function"}
    /\ universe = Shallow
    /\ dirs \in InitTrees
    /\ Constructed

Os ==
    \E parent \in AllDirs, name \in ChildNames :
        \/ OsMkdir(parent, name)
        \/ OsWrite(parent, name)
        \/ OsRmdir(join(parent, name))

Next ==
    \/ MainLoop
    \/ GetEvents
    \/ Debounce
    \/ Build
    \/ BeginRun
    \/ CallHandler
    \/ HandlerReturn
    \/ HandlerRaise
    \/ EndRun
    \/ Interrupt
    \/ Os

Spec == Init /\ [][Next]_vars

(***************************************************************************)
(* The watcher with run_stuff followed step by step.                       *)
(***************************************************************************)
InitHandler ==
    /\ \E f \in FilterConfigs : white_list = f[1] /\ black_list = f[2]
    /\ delay = 0
    /\ ignore_events \in BOOLEAN
    /\ no_initial_run = TRUE
    /\ function = "run_stuff"
    /\ universe = Shallow
    /\ dirs \in InitTrees
    /\ Constructed

NextHandler ==
    \/ MainLoop
    \/ GetEvents
    \/ Build
    \/ BeginRun
    \/ CallHandler
    \/ StepOk
    \/ StepRaise
    \/ RunStuffReturn
    \/ EndRun
    \/ Os

SpecHandler == InitHandler /\ [][NextHandler]_vars

(***************************************************************************)
(* The watcher on a deeper tree: directories inside directories that do    *)
(* not pass the filter.                                                    *)
(***************************************************************************)
DeepTrees == {{POOTLE_DIR}, AllDirs \ Below({join(POOTLE_DIR, TASK)})}

InitDeep ==
    /\ white_list = << <<"t", "*">> >>
    /\ black_list = << <<"*">> >>
    /\ delay \in {0, 1}
    /\ ignore_events = FALSE
    /\ no_initial_run = TRUE
    /\ function \in {"run_stuff", "test_function"}
    /\ universe = AllDirs
    /\ dirs \in DeepTrees
    /\ Constructed

SpecDeep == InitDeep /\ [][Next]_vars

(***************************************************************************)
(* The Path Filter on its own: any two lists, any name.                    *)
(***************************************************************************)
Lists == UNION {[1..n -> Patterns] : n \in 0..MaxListLen}

InitFilter ==
    /\ white_list \in Lists
    /\ black_list \in Lists
    /\ delay = 0
    /\ ignore_events = FALSE
    /\ no_initial_run = TRUE
    /\ function = "run_stuff"
    /\ universe = Shallow
    /\ dirs = {POOTLE_DIR}
    /\ kernel = <<POOTLE_DIR>>
    /\ watches = <<POOTLE_DIR>>
    /\ next_wd = 2
    /\ pc = "main_loop"
    /\ events = <<>>
    /\ change_set = {}
    /\ todo = {}
    /\ current = {}
    /\ ignored = {}
    /\ run_number = 0
    /\ queue = <<>>
    /\ ops = 0
    /\ calls = <<>>
    /\ started = FALSE
    /\ interrupted = FALSE
    /\ hist = <<>>
    /\ uncaught = ""
    /\ q_name = EMPTY
    /\ q_result = TRUE
    /\ t_before = watches
    /\ h_step = 0
    /\ h_done = <<>>
    /\ h_failed = ""
    /\ h_logged = 0
    /\ h_exit = {}
    /\ h_missing = {}
    /\ log = <<>>
    /\ reads = <<>>
    /\ consumed = <<>>

\* is_white_listed(name) is called
Ask(name) ==
    /\ q_name' = name
    /\ q_result' = is_white_listed(name)
    /\ UNCHANGED << config, watches, pc, events, change_set, todo, current,
                    ignored, run_number, dirs, kernel, next_wd, queue, ops,
                    calls, started, interrupted, hist, uncaught, track_query,
                    handler, log, reads, consumed >>

NextFilter == \E name \in Names : Ask(name)

SpecFilter == InitFilter /\ [][NextFilter]_vars

(***************************************************************************)
(* Lines 108-122 on their own: any batch of events that ask for no new     *)
(* watch, on either registry. IN_DELETE_SELF is among the kinds, as the     *)
(* code of line 115 expects it, and so is IN_Q_OVERFLOW, which the kernel   *)
(* queues with wd -1 and no name when its queue is full, whatever the mask. *)
(***************************************************************************)
TrackWds == {1, 2}

TrackShapes ==
    {[wd |-> wd, name |-> EMPTY, kind |-> k] :
        wd \in TrackWds, k \in {"delete_self", "ignored"}}
    \cup {[wd |-> wd, name |-> TASK, kind |-> "modify"] : wd \in TrackWds}
    \cup {[wd |-> 0 - 1, name |-> EMPTY, kind |-> "overflow"]}

TrackBatches ==
    UNION {{[i \in 1..n |->
               [id |-> i, wd |-> b[i].wd, name |-> b[i].name, isdir |-> FALSE,
                kind |-> b[i].kind, during |-> FALSE]] :
            b \in [1..n -> TrackShapes]} : n \in 1..MaxBatch}

TrackRegistries == {<<POOTLE_DIR>>, <<POOTLE_DIR, join(POOTLE_DIR, TASK)>>}

InitTrack ==
    /\ white_list = << <<"t", "*">> >>
    /\ black_list = << <<"*">> >>
    /\ delay = 0
    /\ ignore_events = FALSE
    /\ no_initial_run = TRUE
    /\ function = "run_stuff"
    /\ universe = Shallow
    /\ dirs = {POOTLE_DIR, join(POOTLE_DIR, TASK)}
    /\ watches \in TrackRegistries
    /\ kernel = watches
    /\ next_wd = Len(watches) + 1
    /\ pc = "build"
    /\ events \in TrackBatches
    /\ change_set = {}
    /\ todo = {}
    /\ current = {}
    /\ ignored = {}
    /\ run_number = 0
    /\ queue = <<>>
    /\ ops = 0
    /\ calls = <<>>
    /\ started = TRUE
    /\ interrupted = FALSE
    /\ hist = <<>>
    /\ uncaught = ""
    /\ q_name = EMPTY
    /\ q_result = TRUE
    /\ t_before = watches
    /\ h_step = 0
    /\ h_done = <<>>
    /\ h_failed = ""
    /\ h_logged = 0
    /\ h_exit = {}
    /\ h_missing = {}
    /\ log = << [op |-> "monitor_count", arg |-> {Len(watches)}] >>
    /\ reads = << [op |-> "get_events", blocking |-> TRUE, got |-> events] >>
    /\ consumed = Uids(events)

NextTrack == Build

SpecTrack == InitTrack /\ [][NextTrack]_vars

(***************************************************************************)
(* Properties.                                                             *)
(***************************************************************************)
PathOfEvent(e) == join(get(watches, e.wd, NoDir), e.name)

\* The handler is invoked only for paths of the cycle's change set and for
\* none twice; a cycle that has run to its end has invoked it for every path
\* of the change set; at most one invocation is in progress, and none is in
\* progress outside the handler loop.
OncePerPathSequential ==
    /\ \A i, j \in DOMAIN calls : calls[i] = calls[j] => i = j
    /\ pc \in {"dispatch", "handler"}
          => \A i \in DOMAIN calls : calls[i] \in change_set
    /\ (pc \in {"wait", "sleep", "build"} /\ run_number > 0)
          => {calls[i] : i \in DOMAIN calls} = change_set
    /\ Cardinality(current) <= 1
    /\ pc = "handler" => current = {calls[Len(calls)]}
    /\ pc # "handler" => current = {}

\* C1: in every dispatch cycle the handler is invoked exactly once for each
\* path of the cycle's change set and for no other path, one invocation at a
\* time: also in a cycle in which an invocation raised, every path of the
\* change set has had its invocation.
C1_OncePerPathInEveryCycle ==
    /\ OncePerPathSequential
    /\ uncaught = "HandlerFailure"
          => {calls[i] : i \in DOMAIN calls} = change_set

\* C2: with ignore_events set, an event queued between the start of the
\* first and the return of the last handler invocation of a cycle is gone
\* from the queue once the cycle has ended, and is never part of a batch
\* that a change set is built from.
C2_DrainDiscardsRunEvents ==
    ignore_events =>
        /\ \A i \in DOMAIN events : ~events[i].during
        /\ pc \in {"wait", "sleep", "build", "begin_run"}
              => \A i \in DOMAIN queue : ~queue[i].during

C2_Witness ==
    /\ ignore_events
    /\ pc = "wait"
    /\ \E i \in DOMAIN hist : hist[i].during /\ hist[i].fate = "discarded"

\* C3: with ignore_events unset, as long as no handler invocation has raised
\* and no interrupt has occurred, no event whose leaf name passes the filter
\* is lost: none is read without its path reaching a change set, and none
\* is discarded.
C3_NoEventLoss ==
    (~ignore_events /\ ~interrupted /\ uncaught # "HandlerFailure")
        => \A i \in DOMAIN hist : hist[i].fate \notin {"lost", "discarded"}

\* C4: a handler invocation that raises never stops the loop.
C4_HandlerErrorDoesNotStopLoop ==
    ~(pc = "crashed" /\ uncaught = "HandlerFailure")

\* C5: is_white_listed answers true for the empty and the absent name, true
\* for a name some allow pattern matches (whatever the deny list), false for
\* a name no allow pattern and some deny pattern matches, and true for a
\* name neither list matches.
C5_FilterRule ==
    LET allow == \E i \in DOMAIN white_list : fnmatch(q_name, white_list[i])
        deny == \E i \in DOMAIN black_list : fnmatch(q_name, black_list[i])
    IN /\ q_name \in {EMPTY, None} => q_result
       /\ (q_name \notin {EMPTY, None} /\ allow) => q_result
       /\ (q_name \notin {EMPTY, None} /\ ~allow /\ deny) => ~q_result
       /\ (q_name \notin {EMPTY, None} /\ ~allow /\ ~deny) => q_result

C5_Witness ==
    /\ q_name \notin {EMPTY, None}
    /\ \E i \in DOMAIN white_list : fnmatch(q_name, white_list[i])
    /\ \E i \in DOMAIN black_list : fnmatch(q_name, black_list[i])
    /\ q_result

\* C6: the change set yielded for a batch is exactly the set of the paths
\* (registered path of the event's wd joined with its leaf name) of the
\* batch's events whose leaf name passes the filter.
C6_ChangeSetIsFilteredPathSet ==
    (pc = "begin_run" /\ started) =>
        /\ \A i \in DOMAIN events :
              is_white_listed(events[i].name) => PathOfEvent(events[i]) \in change_set
        /\ \A p \in change_set :
              \E i \in DOMAIN events :
                  is_white_listed(events[i].name) /\ p = PathOfEvent(events[i])

C6_Witness ==
    /\ pc = "begin_run"
    /\ started
    /\ \E i, j \in DOMAIN events :
          /\ i # j
          /\ is_white_listed(events[i].name)
          /\ PathOfEvent(events[i]) = PathOfEvent(events[j])
    /\ \E k \in DOMAIN events : ~is_white_listed(events[k].name)
    /\ Cardinality(change_set) = 1

\* C7: once the creation event of a directory whose leaf name passes the
\* filter has been consumed, in a batch or in a drain, the directory is in
\* the watch registry.
C7_CreatedDirIsWatched ==
    \A i \in DOMAIN hist :
        ( /\ hist[i].made # NoPath
          /\ hist[i].fate \in {"dispatched", "discarded"}
          /\ is_white_listed(Last(hist[i].made)) )
        => \E wd \in DOMAIN watches : watches[wd] = hist[i].made

\* C8: once the events of the removal of a watched directory have been
\* processed, the directory's handle is no longer in the watch registry.
C8_RemovedDirIsDeregistered ==
    \A i \in DOMAIN hist :
        (hist[i].dropped # 0 /\ hist[i].fate = "dispatched")
        => hist[i].dropped \notin DOMAIN watches

\* C9: before the first blocking read returns no handler has been invoked
\* and no cycle has had a non-empty change set; the first blocking read is
\* reached after exactly one completed cycle when no_initial_run is unset
\* and after none when it is set.
C9_InitialRun ==
    /\ ~started => calls = <<>> /\ change_set = {} /\ run_number <= 1
    /\ (~started /\ no_initial_run) => run_number = 0
    /\ (~started /\ ~no_initial_run /\ pc = "wait") => run_number = 1

C9_Witness ==
    ~no_initial_run /\ ~started /\ pc = "wait" /\ run_number = 1 /\ queue # <<>>

\* C10: after an interrupt no further handler invocation starts and no
\* further cycle begins.
C10_InterruptStopsLoop ==
    [][interrupted => (calls' = calls /\ run_number' = run_number)]_vars

\* C11: a watch that cannot be registered (the path has vanished) never
\* ends the process: the path is just left out of the registry.
C11_WatchFailureIsNotFatal ==
    ~(pc = "crashed" /\ uncaught = "IOError")

\* the batch read is not empty and none of its events passes the filter
AllFiltered ==
    /\ events # <<>>
    /\ \A i \in DOMAIN events : ~is_white_listed(events[i].name)

\* C12 as stated: a batch none of whose events passes the filter still gets
\* its cycle, with the empty change set.
C12_FilteredBatchGetsEmptyCycle ==
    [][(pc = "build" /\ AllFiltered /\ pc' # "build")
          => (pc' = "begin_run" /\ change_set' = {})]_vars

\* C12, amended: a batch none of whose events passes the filter gets no
\* cycle at all: no begin_run, no handler invocation, no drain and no
\* end_run; the loop goes back to the blocking read with the registry, the
\* queue and the Reporter untouched.
C12_FilteredBatchGetsNoCycle ==
    [][(pc = "build" /\ AllFiltered /\ pc' # "build")
          => /\ pc' = "wait"
             /\ run_number' = run_number
             /\ log' = log
             /\ calls' = calls
             /\ ignored' = ignored
             /\ queue' = queue
             /\ watches' = watches]_vars

C12_Witness ==
    /\ pc = "wait"
    /\ started
    /\ AllFiltered
    /\ run_number = 0
    /\ \A i \in DOMAIN hist : hist[i].fate = "filtered"

\* C13: a batch is one blocking read that returned something, followed,
\* when delay is not 0, by exactly one sleep and one non-blocking read,
\* whatever that read finds; the batch is what these reads returned, in
\* order, so with delay 0 it is what the blocking read returned. The filter
\* is reached after these one or three steps.
C13_OneReadOneDebounce ==
    /\ Len(reads) \in {0, 1, 3}
    /\ pc = "sleep" => delay # 0 /\ Len(reads) = 1
    /\ pc = "build" => Len(reads) = (IF delay # 0 THEN 3 ELSE 1)
    /\ Len(reads) >= 1 =>
          /\ reads[1].op = "get_events"
          /\ reads[1].blocking
          /\ reads[1].got # <<>>
    /\ Len(reads) = 1 => events = reads[1].got
    /\ Len(reads) = 3 =>
          /\ delay # 0
          /\ reads[2].op = "sleep"
          /\ reads[3].op = "get_events"
          /\ ~reads[3].blocking
          /\ events = reads[1].got \o reads[3].got

C13_Witness ==
    /\ pc = "build"
    /\ delay # 0
    /\ Len(reads) = 3
    /\ reads[3].got # <<>>

\* where the calls of kind op are in the log
At(op) == {i \in DOMAIN log : log[i].op = op}

\* C14: the calls of a cycle come in the order begin_run(change set), the
\* handler invocations (one per path of the change set), the drain if
\* ignore_events is set, end_run; end_run is given the paths of the
\* white-listed events the drain took off the queue, the empty set when no
\* drain took place; a begin_run follows an end_run or, the first one, the
\* monitor_count.
C14_ReportingOrder ==
    /\ pc = "main_loop" => log = <<>>
    /\ pc # "main_loop" => log # <<>>
    /\ \A i \in DOMAIN log : (i = 1) = (log[i].op \in {"monitor_count", "begin_run"})
    /\ (run_number = 0 /\ pc # "main_loop") =>
          \E n \in 1..Cardinality(DOMAIN watches) :
              log = << [op |-> "monitor_count", arg |-> {n}] >>
    /\ run_number > 0 => log[1].op = "begin_run"
    /\ (run_number > 0 /\ pc # "begin_run") => log[1].arg = change_set
    /\ pc = "begin_run" /\ run_number > 0 => log[Len(log)].op = "end_run"
    /\ \A i \in At("function") :
          /\ log[i].arg = {calls[i - 1]}
          /\ \A j \in At("clear") \cup At("end_run") : i < j
    /\ \A i \in At("clear") :
          /\ ignore_events
          /\ i + 1 \in At("end_run")
          /\ (pc \in {"wait", "sleep", "build"}) =>
                \A evs \in log[i].arg :
                    log[i + 1].arg = paths_of(SelectSeq(evs,
                        LAMBDA e : is_white_listed(e.name)), watches)
    /\ \A i \in At("end_run") :
          /\ i = Len(log)
          /\ pc \notin {"dispatch", "handler"}
          /\ log[i].arg = ignored
          /\ Len(log) = Cardinality(log[1].arg) + (IF ignore_events THEN 3 ELSE 2)
          /\ IF ignore_events THEN i - 1 \in At("clear") ELSE log[i].arg = {}

C14_Witness ==
    /\ pc = "wait"
    /\ ignore_events
    /\ At("function") # {}
    /\ \E i \in At("clear") :
          /\ \E evs \in log[i].arg : evs # <<>>
          /\ log[i + 1].arg # {}

\* C20: a raw event is returned by one read only, be it the blocking read,
\* the read after the sleep or the drain's: no event is returned twice, and
\* none that a read has returned is still in the queue.
C20_ConsumedOnce ==
    /\ \A i, j \in DOMAIN consumed : consumed[i] = consumed[j] => i = j
    /\ \A i \in DOMAIN queue, j \in DOMAIN consumed : Uid(queue[i]) # consumed[j]
    /\ \A i \in DOMAIN events : \E j \in DOMAIN consumed : Uid(events[i]) = consumed[j]
    /\ \A i, j \in DOMAIN events : Uid(events[i]) = Uid(events[j]) => i = j

C20_Witness ==
    /\ ignore_events
    /\ pc = "build"
    /\ run_number > 0
    /\ Len(consumed) > Len(events)
    /\ \E i \in DOMAIN hist : hist[i].fate = "discarded"

\* C15: every path of the watch registry is the root or a directory below
\* the root all of whose components below the root pass the filter: neither
\* the walk at start nor a directory creation event gives a watch to a
\* directory that does not pass the filter or to one underneath it.
C15_WatchesAreAllowedPaths ==
    \A wd \in DOMAIN watches :
        /\ SubSeq(watches[wd], 1, Len(POOTLE_DIR)) = POOTLE_DIR
        /\ \A k \in Len(POOTLE_DIR) + 1 .. Len(watches[wd]) :
              is_white_listed(watches[wd][k])

C15_Witness ==
    /\ pc = "begin_run"
    /\ started
    /\ \E d \in dirs :
          /\ Len(d) = Len(POOTLE_DIR) + 2
          /\ ~is_white_listed(d[Len(POOTLE_DIR) + 1])
          /\ is_white_listed(Last(d))
    /\ \E wd \in DOMAIN watches : wd \notin DOMAIN t_before

\* the handles the self-deletion events of the batch name
SelfDeleted ==
    {events[i].wd : i \in {j \in DOMAIN events : events[j].kind = "delete_self"}}

\* C18: removing a watch is idempotent: once the batch has been processed
\* the registry is the one before without the handles of the batch's
\* self-deletion events, however often a handle occurs and whether or not
\* it was registered, and no error has been raised.
C18_DeregisterIdempotent ==
    pc # "build" =>
        /\ uncaught = ""
        /\ watches = Restrict(t_before, DOMAIN t_before \ SelfDeleted)

C18_Witness ==
    /\ pc # "build"
    /\ \E i, j \in DOMAIN events :
          /\ i < j
          /\ events[i].kind = "delete_self"
          /\ events[j].kind = "delete_self"
          /\ events[i].wd = events[j].wd
          /\ events[i].wd \in DOMAIN t_before

\* a registered path, or a registered path joined with a leaf name
UnderWatch(p, w) ==
    \E wd \in DOMAIN w :
        \/ p = w[wd]
        \/ Len(p) > 1 /\ SubSeq(p, 1, Len(p) - 1) = w[wd]

\* C19: every member of a change set and of a drain's result is the
\* registered path of a watched directory or that path joined with a leaf
\* name, never the empty string or a bare leaf name, whatever handles the
\* batch's events carry.
C19_PathsAreUnderWatches ==
    /\ pc = "begin_run" =>
          \A p \in change_set : UnderWatch(p, t_before) \/ UnderWatch(p, watches)
    /\ \A p \in ignored : UnderWatch(p, t_before) \/ UnderWatch(p, watches)

\* the steps of the pipeline before the k-th
Before(k) == SubSeq(PIPELINE, 1, k - 1)

\* C16: run_stuff never lets a failure out: when a step of the pipeline
\* raises, the steps after it are not run, the failure is logged once and
\* run_stuff returns to do_run; the steps completed are always the ones
\* before the step run_stuff is at.
C16_RunStuffNeverRaises ==
    /\ uncaught # "HandlerFailure"
    /\ h_step > 0 => h_done = Before(h_step)
    /\ h_failed = "" => h_logged = 0
    /\ h_failed # "" =>
          /\ h_step \in DOMAIN PIPELINE
          /\ h_failed = PIPELINE[h_step]
          /\ h_logged = 1

C16_Witness ==
    /\ h_failed = "import_project_file"
    /\ h_logged = 1
    /\ pc = "wait"
    /\ run_number > 0
    /\ {calls[i] : i \in DOMAIN calls} = change_set

\* C17: when the directory of a change set path is gone by the time
\* ensure_files looks at it, the invocation ends in ensure_files, before any
\* other step of the pipeline, and the loop goes on: the process does not
\* die of it, and the cycle ends with every path of the change set invoked.
C17_MissingDirAbortsItemOnly ==
    /\ uncaught # "HandlerFailure"
    /\ \A c \in current :
          << run_number, c >> \in h_missing
              => h_failed = "ensure_files" /\ h_done = <<>>
    /\ (pc = "wait" /\ run_number > 0)
          => {calls[i] : i \in DOMAIN calls} = change_set

C17_Witness ==
    /\ pc = "handler"
    /\ \E m \in h_missing : m[1] < run_number
    /\ h_failed = ""
    /\ h_step > 1

\* the events of the batch that ask for a watch (line 113) and pass the filter
Creations ==
    {i \in DOMAIN events : /\ events[i].isdir
                           /\ events[i].kind = "create"
                           /\ is_white_listed(events[i].name)}

\* C21: the watch registry changes only in the step that turns a batch into
\* a change set: an entry that is new then is the directory of a directory
\* creation event of the batch, at most one per such event, an entry that
\* is gone the handle of a self-deletion event of the batch, and no entry
\* changes its path; the drain, the handler invocations, the Reporter calls
\* and the reads leave the registry as it is.
C21_RegistryFrame ==
    [][watches' # watches =>
          /\ pc = "build"
          /\ pc' # "build"
          /\ \A wd \in DOMAIN watches \cap DOMAIN watches' :
                watches'[wd] = watches[wd]
          /\ \A wd \in DOMAIN watches' \ DOMAIN watches :
                \E i \in Creations :
                    /\ events[i].wd \in DOMAIN watches'
                    /\ watches'[wd] = join(watches'[events[i].wd], events[i].name)
          /\ Cardinality(DOMAIN watches' \ DOMAIN watches)
                <= Cardinality(Creations)
          /\ \A wd \in DOMAIN watches \ DOMAIN watches' :
                \E i \in DOMAIN events :
                    events[i].kind = "delete_self" /\ events[i].wd = wd]_vars

C21_Witness ==
    /\ pc = "wait"
    /\ ignore_events
    /\ \E wd \in DOMAIN watches : wd \notin DOMAIN t_before
    /\ \E i \in DOMAIN hist :
          /\ hist[i].fate = "discarded"
          /\ hist[i].made # NoPath
          /\ is_white_listed(Last(hist[i].made))

\* the steps this invocation of run_stuff has completed
Done == {h_done[i] : i \in DOMAIN h_done}

\* C22: notify_trommons has written its notification only if every step
\* before it has been completed and no command of the import (the
\* translation file import, the assignment of permissions) ended in
\* failure.
C22_NotifyOnlyAfterSuccess ==
    "notify_trommons" \in Done =>
        /\ h_done = PIPELINE
        /\ h_exit = {}

====
